---- MODULE Spec2Model ----
(***************************************************************************)
(* Model of the two HTTP endpoints of the deploy demo and of its page:     *)
(*   src/src/app/api/fork-and-deploy/route.ts  (fork-and-deploy POST)      *)
(*   src/src/app/api/deploy/route.ts           (deploy trigger POST, and   *)
(*                                              the page Home, from 53 on) *)
(*                                                                         *)
(* One action is one await point of a handler: the remote call, the        *)
(* remote's answer and everything the handler does with it up to the next  *)
(* remote call (or up to the response).  Text is a sequence of tokens:     *)
(* one-character strings for the user's secret, longer tokens for fixed    *)
(* text.  The remote (the source-control API) is the environment: it       *)
(* answers every call with a success, a non-success status or by making    *)
(* fetch reject; its repositories are the only state shared by requests.   *)
(***************************************************************************)
EXTENDS Integers, Sequences, FiniteSets, TLC

VARIABLES
    cfg,      \* the names of process.env that are set (truthy) at start-up
    run,      \* run[c]: the request of client c that is handled, with its locals
    remote,   \* remote[<<owner, name>>]: the repositories of the remote
    started,  \* the number of requests received so far
    page      \* the page in the browser: its React state and its pending fetches

vars == <<cfg, run, remote, started, page>>

\* Requests the page sends one after the other (the model stops there).
MaxRequests == 2

(***************************************************************************)
(* Text                                                                    *)
(***************************************************************************)
Whitespace == {" ", "\t"}
\* the upper-case letters of the inputs, with what toLowerCase makes of them
UpperToLower == ("A" :> "a") @@ ("M" :> "m") @@ ("C" :> "c") @@ ("P" :> "p") @@ ("É" :> "é")
LowerCase ==
    {"a", "b", "c", "d", "e", "f", "g", "h", "i", "j", "k", "l", "m",
     "n", "o", "p", "q", "r", "s", "t", "u", "v", "w", "x", "y", "z"}
Digits == {"0", "1", "2", "3", "4", "5", "6", "7", "8", "9"}
\* the characters the class [a-z0-9-] holds
SlugChars == LowerCase \cup Digits \cup {"-"}

RECURSIVE TrimStart(_)
TrimStart(s) ==
    IF s # <<>> /\ Head(s) \in Whitespace THEN TrimStart(Tail(s)) ELSE s

RECURSIVE TrimEnd(_)
TrimEnd(s) ==
    IF s # <<>> /\ s[Len(s)] \in Whitespace
    THEN TrimEnd(SubSeq(s, 1, Len(s) - 1))
    ELSE s

\* String.prototype.trim
Trim(s) == TrimEnd(TrimStart(s))

\* String.prototype.toLowerCase
ToLowerCase(s) ==
    [i \in 1..Len(s) |->
        IF s[i] \in DOMAIN UpperToLower THEN UpperToLower[s[i]] ELSE s[i]]

MutReplaceDisallowed(s) ==
    [i \in 1..Len(s) |-> IF s[i] \in Whitespace THEN "-" ELSE s[i]]

\* .replace(/[^a-z0-9-]/g, '-')
ReplaceDisallowed(s) ==
    [i \in 1..Len(s) |-> IF s[i] \in SlugChars THEN s[i] ELSE "-"]

\* route.ts line 36: the slug of a secret
CleanSecret(secret) == ReplaceDisallowed(ToLowerCase(Trim(secret)))

\* String.prototype.includes, on token sequences
Includes(s, needle) ==
    \E i \in 1..(Len(s) + 1) :
        /\ i + Len(needle) - 1 <= Len(s)
        /\ SubSeq(s, i, i + Len(needle) - 1) = needle

(***************************************************************************)
(* Configuration (process.env, read once at module load)                   *)
(***************************************************************************)
ConfigNames ==
    {"GITHUB_PAT", "GITHUB_OWNER", "GITHUB_REPO",
     "CLOUDFLARE_API_TOKEN", "CLOUDFLARE_ACCOUNT_ID", "WORKFLOW_FILE"}

EnvValue ==
    [GITHUB_PAT |-> <<"<pat>">>,
     GITHUB_OWNER |-> <<"<owner>">>,
     GITHUB_REPO |-> <<"<repo>">>,
     CLOUDFLARE_API_TOKEN |-> <<"<cf-token>">>,
     CLOUDFLARE_ACCOUNT_ID |-> <<"<cf-account>">>,
     WORKFLOW_FILE |-> <<"<workflow-file>">>]

\* process.env.X: the value, or the empty text standing for undefined (falsy)
Env(name) == IF name \in cfg THEN EnvValue[name] ELSE <<>>

Truthy(s) == s # <<>>

githubToken == Env("GITHUB_PAT")
originalOwner == Env("GITHUB_OWNER")
originalRepo == Env("GITHUB_REPO")
cloudflareToken == Env("CLOUDFLARE_API_TOKEN")
cloudflareAccountId == Env("CLOUDFLARE_ACCOUNT_ID")
workflowFile == IF Truthy(Env("WORKFLOW_FILE")) THEN Env("WORKFLOW_FILE") ELSE <<"deploy.yml">>

\* The login of the account the token belongs to (owner of /user/repos).
UserLogin == <<"<user>">>

(***************************************************************************)
(* Request bodies and responses                                            *)
(***************************************************************************)
JsUndefined == [t |-> "undefined", v |-> <<>>]
JsString(s) == [t |-> "string", v |-> s]
JsNumber == [t |-> "number", v |-> <<"7">>]

\* !x for the values above
Falsy(x) == x.t = "undefined" \/ (x.t = "string" /\ x.v = <<>>)

\* What req.json() yields: a rejection, null, or an object with its fields.
Body(json, secret, env) == [json |-> json, secret |-> secret, env |-> env]

ForkBodies ==
    {Body("invalid", JsUndefined, JsUndefined), Body("null", JsUndefined, JsUndefined)}
    \cup {Body("object", s, JsUndefined) :
            s \in {JsUndefined, JsNumber, JsString(<<>>), JsString(<<" ", "\t">>),
                   JsString(<<"a">>), JsString(<<" ", "A">>)}}

DeployBodies ==
    {Body("invalid", JsUndefined, JsUndefined), Body("null", JsUndefined, JsUndefined)}
    \cup {Body("object", JsUndefined, e) :
            e \in {JsUndefined, JsString(<<>>), JsString(<<"preview">>),
                   JsString(<<"production">>), JsString(<<"staging">>)}}

\* NextResponse.json(body, {status}); the status is 200 when none is given
NextResponseJson(body, status) == [status |-> status, body |-> body]

\* Response.ok
ResponseOk(r) == r.status \in 200..299

ErrorBody(error) == [ok |-> FALSE, error |-> error]

(***************************************************************************)
(* The remote: repositories, content-addressed git objects                 *)
(***************************************************************************)
WranglerPath == <<"workers/", "hello/", "wrangler.toml">>
WorkflowPath == <<".github/", "workflows/", "deploy.yml">>
ReadmePath == <<"README.md">>
DirTokens ==
    {"workers/", "hello/", ".github/", "workflows/", "node_modules/", ".git/", "vendor/",
     "mirror.git/"}
\* the directory names in which the text ".git/" occurs
DotGitSlash == {".git/", "mirror.git/"}

\* The content of a file is its lines; a blob's sha stands for its content.
Text(token) == << [key |-> "text", value |-> <<token>>] >>

Blob(path, sha) == [path |-> path, mode |-> "100644", type |-> "blob", sha |-> sha]
Dir(path) == [path |-> path, mode |-> "040000", type |-> "tree", sha |-> Text("dir")]

\* the text "-preview", character by character as a slug is
PreviewSuffix == <<"-", "p", "r", "e", "v", "i", "e", "w">>

\* workers/hello/wrangler.toml of the source repository, line by line
OrigWrangler ==
    << [key |-> "name", value |-> <<"cf-demo-worker">>],
       [key |-> "main", value |-> <<"src/index.js">>],
       [key |-> "MY_SECRET", value |-> <<"dev-secret">>],
       [key |-> "name", value |-> <<"cf-demo-worker">> \o PreviewSuffix],
       [key |-> "MY_SECRET", value |-> <<"preview-secret">>],
       [key |-> "MY_SECRET", value |-> <<"production-secret">>] >>

SourceTree ==
    { Blob(ReadmePath, Text("readme-of-source")),
      Blob(WorkflowPath, Text("deploy-yml")),
      Blob(WranglerPath, OrigWrangler),
      Blob(<<".gitignore">>, Text("gitignore")),
      Blob(<<"node_modules/", "dep.js">>, Text("dep-js")),
      Blob(<<"workers/", "hello/", "node_modules/", "dep.js">>, Text("dep-js")),
      Blob(<<"vendor/", ".git/", "config">>, Text("git-config")),
      Blob(<<"mirror.git/", "HEAD">>, Text("git-head")) }

SourceCommit == [tree |-> SourceTree, parents |-> <<>>]

\* the commit auto_init makes: the generated readme alone
InitCommit == [tree |-> {Blob(ReadmePath, Text("readme-auto"))}, parents |-> <<>>]

SourceKey == <<EnvValue.GITHUB_OWNER, EnvValue.GITHUB_REPO>>

\* GET git/trees/main?recursive=1 lists the blobs and their directories
Listing(tree) ==
    tree \cup UNION { { Dir(SubSeq(e.path, 1, k)) :
                          k \in {j \in 1..Len(e.path) :
                                    j < Len(e.path) /\ e.path[j] \in DirTokens} } :
                      e \in tree }

FileAt(rem, key, path) ==
    IF key \in DOMAIN rem
    THEN {e \in rem[key].head.tree : e.path = path}
    ELSE {}

Res(kind, status, body) == [kind |-> kind, status |-> status, body |-> body]
\* The body of a non-success answer: its text, whether the text is JSON, and
\* the message field of that JSON.
ErrText(json, message, text) == [json |-> json, message |-> message, text |-> text]
ErrRes(status, text) == Res("err", status, ErrText(TRUE, JsUndefined, text))
Thrown == Res("throw", 0, ErrText(FALSE, JsUndefined, "fetch failed"))

\* An answer of the remote: the response and the repositories afterwards.
Answer(res, rem) == [res |-> res, rem |-> rem]

\* Every call can fail without effect: a status of the remote, or fetch rejecting.
Failures(rem, errs) == {Answer(e, rem) : e \in errs \cup {Thrown}}

(***************************************************************************)
(* The remote's answers, call by call                                      *)
(***************************************************************************)
WithRepo(rem, key, head) ==
    [k \in DOMAIN rem \cup {key} |-> IF k = key THEN [head |-> head] ELSE rem[k]]

\* POST /repos/{owner}/{repo}/forks
ForkErrors ==
    { Res("err", 403, ErrText(TRUE, JsString(<<"Repository", "forking", "is", "disabled">>),
                              "{forking is disabled}")),
      Res("err", 403, ErrText(TRUE, JsString(<<"Forking", "is", "disabled">>),
                              "{Forking is disabled}")),
      Res("err", 403, ErrText(TRUE, JsString(<<"Resource", "not", "accessible">>),
                              "{not accessible}")),
      Res("err", 403, ErrText(TRUE, JsUndefined, "{}")),
      Res("err", 403, ErrText(FALSE, JsUndefined, "<html>forbidden</html>")),
      Res("err", 404, ErrText(TRUE, JsString(<<"forking", "is", "disabled">>),
                              "{404 forking is disabled}")),
      Res("err", 422, ErrText(TRUE, JsString(<<"name", "already", "exists">>),
                              "{name already exists}")),
      Res("err", 500, ErrText(TRUE, JsString(<<"Server", "Error">>),
                              "{ server error }")) }

\* The login of the organization as the remote has it: the answer of a fork
\* names the owner in the remote's words, which need not be the configured text.
RemoteLogin == <<"<Owner>">>
ForkOwners(organization) == {organization, RemoteLogin}

RemoteFork(rem, owner, repo, req) ==
    { Answer(Res("ok", 202, [owner |-> [login |-> login], name |-> req.name]),
             IF <<login, req.name>> \in DOMAIN rem THEN rem
             ELSE WithRepo(rem, <<login, req.name>>, rem[<<owner, repo>>].head)) :
        login \in ForkOwners(req.organization) }
    \cup Failures(rem, ForkErrors)

\* POST /orgs/{org}/repos and POST /user/repos, with auto_init
CreateErrors(rem, key) ==
    { ErrRes(403, "{forbidden}") }
    \cup (IF key \in DOMAIN rem THEN { ErrRes(422, "{name already exists}") } ELSE {})

RemoteCreate(rem, owner, req) ==
    LET key == <<owner, req.name>>
    IN  (IF key \in DOMAIN rem
         THEN {}
         ELSE { Answer(Res("ok", 201, [owner |-> [login |-> owner], name |-> req.name]),
                       WithRepo(rem, key, InitCommit)) })
        \cup Failures(rem, CreateErrors(rem, key))

\* GET /repos/{owner}/{repo}/git/trees/main?recursive=1
RemoteGetTree(rem, owner, repo) ==
    (IF <<owner, repo>> \in DOMAIN rem
     THEN { Answer(Res("ok", 200, [tree |-> Listing(rem[<<owner, repo>>].head.tree)]), rem) }
     ELSE {})
    \cup Failures(rem, { ErrRes(404, "{tree not found}") })

\* GET /repos/{owner}/{repo}/git/refs/heads/main
RemoteGetRef(rem, owner, repo) ==
    (IF <<owner, repo>> \in DOMAIN rem
     THEN { Answer(Res("ok", 200, [object |-> [sha |-> rem[<<owner, repo>>].head]]), rem) }
     ELSE {})
    \cup Failures(rem, { ErrRes(409, "{repository is empty}") })

\* POST /repos/{owner}/{repo}/git/trees (no base_tree: the tree is the entries given)
RemoteCreateTree(rem, owner, repo, req) ==
    (IF <<owner, repo>> \in DOMAIN rem
     THEN { Answer(Res("ok", 201, [sha |-> req.tree]), rem) }
     ELSE {})
    \cup Failures(rem, { ErrRes(422, "{invalid tree}") })

\* POST /repos/{owner}/{repo}/git/commits
RemoteCreateCommit(rem, owner, repo, req) ==
    (IF <<owner, repo>> \in DOMAIN rem
     THEN { Answer(Res("ok", 201, [sha |-> [tree |-> req.tree, parents |-> req.parents]]), rem) }
     ELSE {})
    \cup Failures(rem, { ErrRes(422, "{invalid commit}") })

\* PATCH /repos/{owner}/{repo}/git/refs/heads/main (not forced: fast-forward only)
RemoteUpdateRef(rem, owner, repo, req) ==
    (IF <<owner, repo>> \in DOMAIN rem /\ req.sha.parents = <<rem[<<owner, repo>>].head>>
     THEN { Answer(Res("ok", 200, [object |-> [sha |-> req.sha]]),
                   WithRepo(rem, <<owner, repo>>, req.sha)) }
     ELSE {})
    \cup Failures(rem, { ErrRes(422, "{not a fast forward}") })

\* PUT /repos/{owner}/{repo}/actions/permissions
RemoteEnableActions(rem, owner, repo) ==
    { Answer(Res("ok", 204, [none |-> TRUE]), rem) }
    \cup Failures(rem, { ErrRes(403, "{actions forbidden}") })

\* Buffer base64 encoding of the file text, and back
Base64Encode(text) == [base64 |-> text]
Base64Decode(enc) == enc.base64

\* GET /repos/{owner}/{repo}/contents/{path}
RemoteGetContents(rem, owner, repo, path) ==
    { Answer(Res("ok", 200, [content |-> Base64Encode(e.sha), sha |-> e.sha]), rem) :
        e \in FileAt(rem, <<owner, repo>>, path) }
    \cup Failures(rem, { ErrRes(404, "{file not found}") })

\* PUT /repos/{owner}/{repo}/contents/{path}: accepted only with the file's current sha
RemotePutContents(rem, owner, repo, path, req) ==
    { Answer(Res("ok", 200, [content |-> [sha |-> Base64Decode(req.content)]]),
             WithRepo(rem, <<owner, repo>>,
                      [tree |-> (rem[<<owner, repo>>].head.tree \ {e})
                                  \cup {Blob(path, Base64Decode(req.content))},
                       parents |-> <<rem[<<owner, repo>>].head>>])) :
        e \in {f \in FileAt(rem, <<owner, repo>>, path) : f.sha = req.sha} }
    \cup Failures(rem, { ErrRes(409, "{sha does not match}") })

\* GET /repos/{owner}/{repo}/actions/secrets/public-key
RemoteGetPublicKey(rem, owner, repo) ==
    (IF <<owner, repo>> \in DOMAIN rem
     THEN { Answer(Res("ok", 200, [key |-> "<public-key>", key_id |-> "<key-id>"]), rem) }
     ELSE {})
    \cup Failures(rem, { ErrRes(403, "{secrets forbidden}") })

\* PUT /repos/{owner}/{repo}/actions/secrets/{name}
RemotePutSecret(rem, owner, repo, name, req) ==
    (IF <<owner, repo>> \in DOMAIN rem
     THEN { Answer(Res("ok", 201, [none |-> TRUE]), rem) }
     ELSE {})
    \cup Failures(rem, { ErrRes(422, "{bad secret}") })

\* POST /repos/{owner}/{repo}/actions/workflows/{file}/dispatches
RemoteDispatch(rem, owner, repo, file, req) ==
    (IF <<owner, repo>> \in DOMAIN rem
     THEN { Answer(Res("ok", st, [text |-> IF st = 204 THEN "" ELSE "{queued}"]), rem) :
              st \in {200, 204} }
     ELSE {})
    \cup Failures(rem, { ErrRes(404, "{workflow not found}"), ErrRes(422, "{no workflow_dispatch}") })

(***************************************************************************)
(* The handlers                                                            *)
(***************************************************************************)
Clients == {"c1", "c2"}

NoResponse == NextResponseJson(ErrorBody(<<>>), 0)

NewRun(endpoint, body) ==
    [endpoint |-> endpoint, pc |-> "start", body |-> body,
     secret |-> <<>>, cleanSecret |-> <<>>, newRepoName |-> <<>>,
     newOwner |-> <<>>, wasForked |-> FALSE,
     sourceTree |-> {}, baseCommitSha |-> InitCommit, newTree |-> {}, newCommit |-> InitCommit,
     fileData |-> [content |-> <<>>, sha |-> <<>>],
     key |-> [key |-> "", key_id |-> ""], secretIndex |-> 1, env |-> <<>>,
     calls |-> <<>>, resp |-> NoResponse]

IdleRun == [NewRun("none", Body("object", JsUndefined, JsUndefined)) EXCEPT !.pc = "idle"]

\* A remote call as the handler issued it, with the answer it got.
Call(op, owner, repo, req, res) ==
    [op |-> op, owner |-> owner, repo |-> repo, req |-> req, res |-> res]

Logged(r, call) == [r EXCEPT !.calls = Append(@, call)]

Respond(r, response) == [r EXCEPT !.pc = "done", !.resp = response]

Fail(r, status, error) == Respond(r, NextResponseJson(ErrorBody(error), status))

MutBlankSecret(text) == ~Truthy(text)

\* line 14: !secret.trim()
BlankSecret(text) == ~Truthy(Trim(text))

\* line 21
GitHubConfigured == Truthy(githubToken) /\ Truthy(originalOwner) /\ Truthy(originalRepo)

MutCloudflareConfigured == Truthy(cloudflareToken)

\* line 28
CloudflareConfigured == Truthy(cloudflareToken) /\ Truthy(cloudflareAccountId)

\* fork-and-deploy POST, lines 12-37: read the body, validate, name the repository
ForkValidate(r) ==
    LET secret == r.body.secret IN
    IF r.body.json = "invalid" THEN Fail(r, 500, <<"Unexpected end of JSON input">>)
    ELSE IF r.body.json = "null"
        THEN Fail(r, 500, <<"Cannot destructure property 'secret' of null">>)
    ELSE IF Falsy(secret) THEN Fail(r, 400, <<"Secret is required">>)
    ELSE IF secret.t # "string" THEN Fail(r, 500, <<"secret.trim is not a function">>)
    ELSE IF BlankSecret(secret.v) THEN Fail(r, 400, <<"Secret is required">>)
    ELSE IF ~GitHubConfigured THEN Fail(r, 500, <<"Missing GitHub configuration">>)
    ELSE IF ~CloudflareConfigured THEN Fail(r, 500, <<"Missing Cloudflare configuration">>)
    ELSE [r EXCEPT !.secret = secret.v,
                   !.cleanSecret = CleanSecret(secret.v),
                   !.newRepoName = originalRepo \o <<"-">> \o CleanSecret(secret.v),
                   !.pc = "fork"]

\* JSON.stringify of a parsed body (line 125): the compact form of the text
JsonStringify(text) == IF text = "{ server error }" THEN "{server error}" ELSE text

\* the catch of line 128, then the catch of line 175
CreationFailed(r, message) == Fail(r, 500, <<"Repository creation failed: ">> \o message)

MutForkingDisabled(res) ==
    /\ res.body.message.t = "string"
    /\ Includes(res.body.message.v, <<"forking", "is", "disabled">>)

\* line 71
ForkingDisabled(res) ==
    /\ res.status = 403
    /\ res.body.message.t = "string"
    /\ Includes(res.body.message.v, <<"forking", "is", "disabled">>)

\* lines 62-73 and 124-126: what the handler does with the fork's answer
AfterFork(r, res) ==
    IF res.kind = "throw" THEN CreationFailed(r, <<res.body.text>>)
    ELSE IF res.kind = "ok"
        THEN [r EXCEPT !.newOwner = res.body.owner.login, !.wasForked = TRUE,
                       !.pc = "enableActions"]
    ELSE IF ~res.body.json THEN CreationFailed(r, <<"Unexpected token < in JSON">>)
    ELSE IF ForkingDisabled(res) THEN [r EXCEPT !.pc = "createOrg"]
    ELSE CreationFailed(r, <<"Failed to fork repository: ", JsonStringify(res.body.text)>>)

MutAfterCreate(r, res, fallback) ==
    IF res.kind = "throw" THEN CreationFailed(r, <<res.body.text>>)
    ELSE IF res.kind = "ok"
        THEN [r EXCEPT !.newOwner = res.body.owner.login, !.pc = "getSourceTree"]
    ELSE IF fallback THEN [r EXCEPT !.pc = "createUser"]
    ELSE [r EXCEPT !.newOwner = UserLogin, !.pc = "getSourceTree"]

\* lines 91 and 109-116: what the handler does with the answer of a create
AfterCreate(r, res, fallback) ==
    IF res.kind = "throw" THEN CreationFailed(r, <<res.body.text>>)
    ELSE IF res.kind = "ok"
        THEN [r EXCEPT !.newOwner = res.body.owner.login, !.pc = "getSourceTree"]
    ELSE IF fallback THEN [r EXCEPT !.pc = "createUser"]
    ELSE CreationFailed(r, <<"Failed to create repository: ", res.body.text>>)

CreateRequest(r) ==
    [name |-> r.newRepoName,
     description |-> <<"Cloudflare Worker deployment with secret: ">> \o r.secret,
     private |-> FALSE, auto_init |-> TRUE]

ForkRequest(r) ==
    [organization |-> originalOwner, name |-> r.newRepoName, default_branch_only |-> TRUE]

\* A request arrives at /api/fork-and-deploy.
ForkPOST(c, body) ==
    /\ started < MaxRequests
    /\ run' = [run EXCEPT ![c] = ForkValidate(NewRun("fork", body))]
    /\ started' = started + 1
    /\ UNCHANGED <<cfg, remote>>

\* lines 48-60
ForkRepository(c) ==
    /\ run[c].pc = "fork"
    /\ \E a \in RemoteFork(remote, originalOwner, originalRepo, ForkRequest(run[c])) :
        /\ remote' = a.rem
        /\ run' = [run EXCEPT ![c] =
              AfterFork(Logged(@, Call("fork", originalOwner, originalRepo,
                                       ForkRequest(run[c]), a.res)), a.res)]
    /\ UNCHANGED <<cfg, started>>

\* lines 75-88
CreateInOrganization(c) ==
    /\ run[c].pc = "createOrg"
    /\ \E a \in RemoteCreate(remote, originalOwner, CreateRequest(run[c])) :
        /\ remote' = a.rem
        /\ run' = [run EXCEPT ![c] =
              AfterCreate(Logged(@, Call("createOrg", originalOwner, <<>>,
                                         CreateRequest(run[c]), a.res)), a.res, TRUE)]
    /\ UNCHANGED <<cfg, started>>

\* lines 93-106
CreateInPersonalAccount(c) ==
    /\ run[c].pc = "createUser"
    /\ \E a \in RemoteCreate(remote, UserLogin, CreateRequest(run[c])) :
        /\ remote' = a.rem
        /\ run' = [run EXCEPT ![c] =
              AfterCreate(Logged(@, Call("createUser", UserLogin, <<>>,
                                         CreateRequest(run[c]), a.res)), a.res, FALSE)]
    /\ UNCHANGED <<cfg, started>>

(***************************************************************************)
(* copyRepositoryContent, lines 383-488                                    *)
(***************************************************************************)
StartsWith(s, token) == Len(s) >= 1 /\ s[1] = token

\* path.includes(text), for a text that ends a directory name: it occurs in
\* the path when a directory of the path has one of the names that hold it
PathIncludes(path, names) == \E k \in 1..Len(path) : path[k] \in names

\* lines 424-429
KeptInTree(item) ==
    /\ item.type = "blob"
    /\ ~PathIncludes(item.path, DotGitSlash)
    /\ ~StartsWith(item.path, "node_modules/")
    /\ item.path # ReadmePath

\* lines 423-435: the tree that is submitted
TreeRequest(sourceTree) ==
    [tree |-> { [path |-> item.path, mode |-> item.mode, type |-> item.type, sha |-> item.sha] :
                  item \in {i \in sourceTree : KeptInTree(i)} }]

MutCommitRequest(r) ==
    [message |-> <<"Copy content from ">> \o originalOwner \o <<"/">> \o originalRepo,
     tree |-> r.newTree, parents |-> <<>>]

\* lines 452-456
CommitRequest(r) ==
    [message |-> <<"Copy content from ">> \o originalOwner \o <<"/">> \o originalRepo,
     tree |-> r.newTree, parents |-> <<r.baseCommitSha>>]

\* lines 473-475
RefRequest(r) == [sha |-> r.newCommit]

MutAfterCopyCall(r, res, failure, next) ==
    IF res.kind = "throw" THEN [r EXCEPT !.pc = "rejected"]
    ELSE IF res.kind = "err" THEN CreationFailed(r, failure)
    ELSE next

\* One call of the copy: a failure is thrown (lines 396, 410, 440, 461, 480),
\* rethrown at 486 and reported by the catches of lines 128 and 175.
AfterCopyCall(r, res, failure, next) ==
    IF res.kind = "throw" THEN CreationFailed(r, <<res.body.text>>)
    ELSE IF res.kind = "err" THEN CreationFailed(r, failure)
    ELSE next

CopyGetSourceTree(c) ==
    /\ run[c].pc = "getSourceTree"
    /\ \E a \in RemoteGetTree(remote, originalOwner, originalRepo) :
        /\ remote' = a.rem
        /\ run' = [run EXCEPT ![c] =
              AfterCopyCall(
                  Logged(@, Call("getSourceTree", originalOwner, originalRepo, <<>>, a.res)),
                  a.res, <<"Failed to get source repository tree">>,
                  [Logged(@, Call("getSourceTree", originalOwner, originalRepo, <<>>, a.res))
                      EXCEPT !.sourceTree = a.res.body.tree, !.pc = "getTargetRef"])]
    /\ UNCHANGED <<cfg, started>>

CopyGetTargetRef(c) ==
    /\ run[c].pc = "getTargetRef"
    /\ \E a \in RemoteGetRef(remote, run[c].newOwner, run[c].newRepoName) :
        /\ remote' = a.rem
        /\ run' = [run EXCEPT ![c] =
              AfterCopyCall(
                  Logged(@, Call("getTargetRef", @.newOwner, @.newRepoName, <<>>, a.res)),
                  a.res, <<"Failed to get target repository main branch">>,
                  [Logged(@, Call("getTargetRef", @.newOwner, @.newRepoName, <<>>, a.res))
                      EXCEPT !.baseCommitSha = a.res.body.object.sha, !.pc = "createTree"])]
    /\ UNCHANGED <<cfg, started>>

CopyCreateTree(c) ==
    /\ run[c].pc = "createTree"
    /\ \E a \in RemoteCreateTree(remote, run[c].newOwner, run[c].newRepoName,
                                 TreeRequest(run[c].sourceTree)) :
        /\ remote' = a.rem
        /\ run' = [run EXCEPT ![c] =
              AfterCopyCall(
                  Logged(@, Call("createTree", @.newOwner, @.newRepoName,
                                 TreeRequest(@.sourceTree), a.res)),
                  a.res, <<"Failed to create tree: ", a.res.body.text>>,
                  [Logged(@, Call("createTree", @.newOwner, @.newRepoName,
                                  TreeRequest(@.sourceTree), a.res))
                      EXCEPT !.newTree = a.res.body.sha, !.pc = "createCommit"])]
    /\ UNCHANGED <<cfg, started>>

CopyCreateCommit(c) ==
    /\ run[c].pc = "createCommit"
    /\ \E a \in RemoteCreateCommit(remote, run[c].newOwner, run[c].newRepoName,
                                   CommitRequest(run[c])) :
        /\ remote' = a.rem
        /\ run' = [run EXCEPT ![c] =
              AfterCopyCall(
                  Logged(@, Call("createCommit", @.newOwner, @.newRepoName,
                                 CommitRequest(@), a.res)),
                  a.res, <<"Failed to create commit: ", a.res.body.text>>,
                  [Logged(@, Call("createCommit", @.newOwner, @.newRepoName,
                                  CommitRequest(@), a.res))
                      EXCEPT !.newCommit = a.res.body.sha, !.pc = "updateRef"])]
    /\ UNCHANGED <<cfg, started>>

\* after the copy the handler goes on at line 132; the repository was not forked
CopyUpdateRef(c) ==
    /\ run[c].pc = "updateRef"
    /\ \E a \in RemoteUpdateRef(remote, run[c].newOwner, run[c].newRepoName,
                                RefRequest(run[c])) :
        /\ remote' = a.rem
        /\ run' = [run EXCEPT ![c] =
              AfterCopyCall(
                  Logged(@, Call("updateRef", @.newOwner, @.newRepoName, RefRequest(@), a.res)),
                  a.res, <<"Failed to update main branch: ", a.res.body.text>>,
                  [Logged(@, Call("updateRef", @.newOwner, @.newRepoName, RefRequest(@), a.res))
                      EXCEPT !.pc = "getWrangler"])]
    /\ UNCHANGED <<cfg, started>>

(***************************************************************************)
(* enableGitHubActions, lines 351-379, called at lines 137-142             *)
(***************************************************************************)
MutAfterEnableActions(r, res) ==
    IF res.kind = "throw"
    THEN Fail(r, 500, <<"Failed to enable Actions: ", res.body.text>>)
    ELSE [r EXCEPT !.pc = "getWrangler"]

\* enableGitHubActions catches every failure (line 375) and returns a response in
\* either case; lines 139-145: the handler warns at most, and goes on to the
\* configuration.
AfterEnableActions(r, res) == [r EXCEPT !.pc = "getWrangler"]

EnableGitHubActions(c) ==
    /\ run[c].pc = "enableActions"
    /\ \E a \in RemoteEnableActions(remote, originalOwner, run[c].newRepoName) :
        /\ remote' = a.rem
        /\ run' = [run EXCEPT ![c] =
              AfterEnableActions(
                  Logged(@, Call("enableActions", originalOwner, @.newRepoName,
                                 [enabled |-> TRUE, allowed_actions |-> "all"], a.res)),
                  a.res)]
    /\ UNCHANGED <<cfg, started>>

(***************************************************************************)
(* updateWranglerConfig, lines 184-235, called at lines 145-148            *)
(***************************************************************************)
\* The replacement text of String.prototype.replace: "$$" stands for "$" and
\* "$&" for the text that was matched (the patterns have no groups, so "$1"
\* is kept as it is; the secrets of the model hold no "$`" and no "$'").
RECURSIVE ExpandReplacement(_, _)
ExpandReplacement(new, matched) ==
    IF new = <<>> THEN <<>>
    ELSE IF Len(new) >= 2 /\ new[1] = "$" /\ new[2] = "$"
        THEN <<"$">> \o ExpandReplacement(SubSeq(new, 3, Len(new)), matched)
    ELSE IF Len(new) >= 2 /\ new[1] = "$" /\ new[2] = "&"
        THEN matched \o ExpandReplacement(SubSeq(new, 3, Len(new)), matched)
    ELSE <<new[1]>> \o ExpandReplacement(Tail(new), matched)

\* one .replace(/key = "old"/g, `key = "new"`) over the lines of the file
ReplaceAll(content, key, old, new) ==
    [i \in DOMAIN content |->
        IF content[i].key = key /\ content[i].value = old
        THEN [key |-> key,
              value |-> ExpandReplacement(new, <<key, " = \"">> \o old \o <<"\"">>)]
        ELSE content[i]]

\* lines 202-207: five replacements, each on the result of the one before
UpdatedContent(content, secret, cleanSecret) ==
    LET c1 == ReplaceAll(content, "name", <<"cf-demo-worker">>,
                         <<"cf-demo-worker", "-">> \o cleanSecret)
        c2 == ReplaceAll(c1, "name", <<"cf-demo-worker">> \o PreviewSuffix,
                         <<"cf-demo-worker", "-">> \o cleanSecret \o PreviewSuffix)
        c3 == ReplaceAll(c2, "MY_SECRET", <<"dev-secret">>, secret)
        c4 == ReplaceAll(c3, "MY_SECRET", <<"preview-secret">>, secret)
    IN  ReplaceAll(c4, "MY_SECRET", <<"production-secret">>, secret)

MutWriteSha(r) ==
    LET now == FileAt(remote, <<r.newOwner, r.newRepoName>>, WranglerPath)
    IN  IF now = {} THEN r.fileData.sha ELSE (CHOOSE e \in now : TRUE).sha

\* line 219: the sha the write carries
WriteSha(r) == r.fileData.sha

\* lines 216-220
PutWranglerRequest(r) ==
    [message |-> <<"Update wrangler.toml with secret: ">> \o r.cleanSecret,
     content |-> Base64Encode(
                    UpdatedContent(Base64Decode(r.fileData.content), r.secret, r.cleanSecret)),
     sha |-> WriteSha(r)]

\* the catch of line 229; the handler returns this response as it is (line 147)
WranglerFailed(r, message) == Fail(r, 500, <<"Failed to update wrangler config: ">> \o message)

\* lines 194-199
AfterGetWrangler(r, res) ==
    IF res.kind = "throw" THEN WranglerFailed(r, <<res.body.text>>)
    ELSE IF res.kind = "err" THEN WranglerFailed(r, <<"Failed to get wrangler.toml">>)
    ELSE [r EXCEPT !.fileData = res.body, !.pc = "putWrangler"]

MutAfterPutWrangler(r, res) ==
    IF res.kind = "throw" THEN WranglerFailed(r, <<res.body.text>>)
    ELSE [r EXCEPT !.pc = "getPublicKey"]

\* lines 223-228 and 146-148
AfterPutWrangler(r, res) ==
    IF res.kind = "throw" THEN WranglerFailed(r, <<res.body.text>>)
    ELSE IF res.kind = "err"
        THEN WranglerFailed(r, <<"Failed to update wrangler.toml: ", res.body.text>>)
    ELSE [r EXCEPT !.pc = "getPublicKey"]

GetWranglerFile(c) ==
    /\ run[c].pc = "getWrangler"
    /\ \E a \in RemoteGetContents(remote, run[c].newOwner, run[c].newRepoName, WranglerPath) :
        /\ remote' = a.rem
        /\ run' = [run EXCEPT ![c] =
              AfterGetWrangler(
                  Logged(@, Call("getWrangler", @.newOwner, @.newRepoName, <<>>, a.res)),
                  a.res)]
    /\ UNCHANGED <<cfg, started>>

PutWranglerFile(c) ==
    /\ run[c].pc = "putWrangler"
    /\ \E a \in RemotePutContents(remote, run[c].newOwner, run[c].newRepoName, WranglerPath,
                                  PutWranglerRequest(run[c])) :
        /\ remote' = a.rem
        /\ run' = [run EXCEPT ![c] =
              AfterPutWrangler(
                  Logged(@, Call("putWrangler", @.newOwner, @.newRepoName,
                                 PutWranglerRequest(@), a.res)),
                  a.res)]
    /\ UNCHANGED <<cfg, started>>

(***************************************************************************)
(* setupGitHubSecrets, lines 237-287, called at lines 151-154              *)
(***************************************************************************)
\* lines 254-257
Secrets ==
    << [name |-> "CLOUDFLARE_API_TOKEN", value |-> cloudflareToken],
       [name |-> "CLOUDFLARE_ACCOUNT_ID", value |-> cloudflareAccountId] >>

\* encryptSecret, lines 334-349: a sealed box for the holder of the key
EncryptSecret(value, publicKey) == [sealed |-> value, for |-> publicKey]

\* lines 269-272
PutSecretRequest(r) ==
    [encrypted_value |-> EncryptSecret(Secrets[r.secretIndex].value, r.key.key),
     key_id |-> r.key.key_id]

\* the catch of line 281; the handler returns this response as it is (line 153)
SecretsFailed(r, message) == Fail(r, 500, <<"Failed to setup GitHub secrets: ">> \o message)

\* lines 247-251
AfterGetPublicKey(r, res) ==
    IF res.kind = "throw" THEN SecretsFailed(r, <<res.body.text>>)
    ELSE IF res.kind = "err" THEN SecretsFailed(r, <<"Failed to get repository public key">>)
    ELSE [r EXCEPT !.key = res.body, !.secretIndex = 1, !.pc = "putSecret"]

MutAfterPutSecret(r, res) ==
    IF res.kind = "throw" THEN SecretsFailed(r, <<res.body.text>>)
    ELSE IF res.kind = "err" THEN r
    ELSE IF r.secretIndex < Len(Secrets) THEN [r EXCEPT !.secretIndex = @ + 1]
    ELSE [r EXCEPT !.pc = "getWorkflow"]

\* lines 260, 275-280: a status is a warning, a rejection of fetch is caught at 281
AfterPutSecret(r, res) ==
    IF res.kind = "throw" THEN SecretsFailed(r, <<res.body.text>>)
    ELSE IF r.secretIndex < Len(Secrets) THEN [r EXCEPT !.secretIndex = @ + 1]
    ELSE [r EXCEPT !.pc = "getWorkflow"]

GetPublicKey(c) ==
    /\ run[c].pc = "getPublicKey"
    /\ \E a \in RemoteGetPublicKey(remote, run[c].newOwner, run[c].newRepoName) :
        /\ remote' = a.rem
        /\ run' = [run EXCEPT ![c] =
              AfterGetPublicKey(
                  Logged(@, Call("getPublicKey", @.newOwner, @.newRepoName, <<>>, a.res)),
                  a.res)]
    /\ UNCHANGED <<cfg, started>>

PutSecret(c) ==
    /\ run[c].pc = "putSecret"
    /\ \E a \in RemotePutSecret(remote, run[c].newOwner, run[c].newRepoName,
                                Secrets[run[c].secretIndex].name, PutSecretRequest(run[c])) :
        /\ remote' = a.rem
        /\ run' = [run EXCEPT ![c] =
              AfterPutSecret(
                  Logged(@, Call("putSecret", @.newOwner, @.newRepoName,
                                 [name |-> Secrets[@.secretIndex].name,
                                  body |-> PutSecretRequest(@)], a.res)),
                  a.res)]
    /\ UNCHANGED <<cfg, started>>

(***************************************************************************)
(* triggerDeployment, lines 289-332, called at lines 157-160; lines 162-173*)
(***************************************************************************)
\* the catch of line 325; the handler returns this response as it is (line 159)
DeploymentFailed(r, message) == Fail(r, 500, <<"Failed to trigger deployment: ">> \o message)

MutAfterGetWorkflow(r, res) ==
    IF res.kind = "throw" THEN DeploymentFailed(r, <<res.body.text>>)
    ELSE [r EXCEPT !.pc = "dispatch"]

\* lines 299-301
AfterGetWorkflow(r, res) ==
    IF res.kind = "throw" THEN DeploymentFailed(r, <<res.body.text>>)
    ELSE IF res.kind = "err"
        THEN DeploymentFailed(r, <<"Workflow file does not exist in repository. Status: ",
                                   ToString(res.status)>>)
    ELSE [r EXCEPT !.pc = "dispatch"]

MutDispatchAccepted(res) == TRUE

\* line 318: the dispatch counts as done when the response is ok
DispatchAccepted(res) == res.kind = "ok" /\ ResponseOk(res)

MutSuccess(r) ==
    NextResponseJson(
        [ok |-> TRUE,
         repoName |-> r.newRepoName,
         repoUrl |-> <<"https://github.com/">> \o originalOwner \o <<"/">> \o r.newRepoName,
         previewUrl |-> <<"https://">> \o originalRepo \o <<"-">> \o r.cleanSecret
                            \o PreviewSuffix \o <<".">> \o originalOwner \o <<".workers.dev">>,
         message |-> IF r.wasForked
                     THEN <<"Repository forked and deployment triggered successfully!">>
                     ELSE <<"Repository created and deployment triggered successfully!">>],
        200)

\* lines 162-173
Success(r) ==
    NextResponseJson(
        [ok |-> TRUE,
         repoName |-> r.newRepoName,
         repoUrl |-> <<"https://github.com/">> \o r.newOwner \o <<"/">> \o r.newRepoName,
         previewUrl |-> <<"https://">> \o originalRepo \o <<"-">> \o r.cleanSecret
                            \o PreviewSuffix \o <<".">> \o r.newOwner \o <<".workers.dev">>,
         message |-> IF r.wasForked
                     THEN <<"Repository forked and deployment triggered successfully!">>
                     ELSE <<"Repository created and deployment triggered successfully!">>],
        200)

\* lines 318-324 and 158-173
AfterDispatch(r, res) ==
    IF res.kind = "throw" THEN DeploymentFailed(r, <<res.body.text>>)
    ELSE IF ~DispatchAccepted(res)
        THEN DeploymentFailed(r, <<"Failed to trigger deployment: ", res.body.text>>)
    ELSE Respond(r, Success(r))

DispatchRequest(env) == [ref |-> "main", inputs |-> [env |-> env]]

CheckWorkflow(c) ==
    /\ run[c].pc = "getWorkflow"
    /\ \E a \in RemoteGetContents(remote, run[c].newOwner, run[c].newRepoName, WorkflowPath) :
        /\ remote' = a.rem
        /\ run' = [run EXCEPT ![c] =
              AfterGetWorkflow(
                  Logged(@, Call("getWorkflow", @.newOwner, @.newRepoName, <<>>, a.res)),
                  a.res)]
    /\ UNCHANGED <<cfg, started>>

DispatchWorkflow(c) ==
    /\ run[c].pc = "dispatch"
    /\ \E a \in RemoteDispatch(remote, run[c].newOwner, run[c].newRepoName, <<"deploy.yml">>,
                               DispatchRequest(<<"preview">>)) :
        /\ remote' = a.rem
        /\ run' = [run EXCEPT ![c] =
              AfterDispatch(
                  Logged(@, Call("dispatch", @.newOwner, @.newRepoName,
                                 DispatchRequest(<<"preview">>), a.res)),
                  a.res)]
    /\ UNCHANGED <<cfg, started>>

(***************************************************************************)
(* The deploy trigger, src/src/app/api/deploy/route.ts lines 8-51          *)
(***************************************************************************)
\* line 13
DeployConfigured == Truthy(originalOwner) /\ Truthy(originalRepo) /\ Truthy(githubToken)

MutDeployEnv(body) == <<"preview">>

\* lines 10-11: a body that cannot be parsed counts as {}; body.env || "preview"
DeployEnv(body) ==
    IF body.json = "object" /\ ~Falsy(body.env) THEN body.env.v ELSE <<"preview">>

\* lines 10-18
DeployValidate(r) ==
    IF r.body.json = "null"
        THEN Fail(r, 500, <<"Cannot read properties of null (reading 'env')">>)
    ELSE IF ~DeployConfigured
        THEN Fail(r, 500, <<"Missing GITHUB_* env vars on server">>)
    ELSE [r EXCEPT !.env = DeployEnv(r.body), !.pc = "deployDispatch"]

\* lines 46-47
DeployTriggered(r) ==
    NextResponseJson(
        [ok |-> TRUE, message |-> <<"Deploy triggered">>,
         actionsUrl |-> <<"https://github.com/">> \o originalOwner \o <<"/">>
                           \o originalRepo \o <<"/actions/workflows/">> \o workflowFile,
         env |-> r.env], 200)

MutAfterDeployDispatch(r, res) ==
    IF res.kind = "throw" THEN Fail(r, 500, <<res.body.text>>)
    ELSE IF ~ResponseOk(res)
        THEN Fail(r, 500, <<"GitHub API error (", ToString(res.status), "): ", res.body.text>>)
    ELSE Respond(r, DeployTriggered(r))

\* lines 37-50
AfterDeployDispatch(r, res) ==
    IF res.kind = "throw" THEN Fail(r, 500, <<res.body.text>>)
    ELSE IF res.status # 204
        THEN Fail(r, 500, <<"GitHub API error (", ToString(res.status), "): ", res.body.text>>)
    ELSE Respond(r, DeployTriggered(r))

\* A request arrives at /api/deploy.
DeployPOST(c, body) ==
    /\ started < MaxRequests
    /\ run' = [run EXCEPT ![c] = DeployValidate(NewRun("deploy", body))]
    /\ started' = started + 1
    /\ UNCHANGED <<cfg, remote>>

\* lines 20-35
DeployDispatch(c) ==
    /\ run[c].pc = "deployDispatch"
    /\ \E a \in RemoteDispatch(remote, originalOwner, originalRepo, workflowFile,
                               DispatchRequest(run[c].env)) :
        /\ remote' = a.rem
        /\ run' = [run EXCEPT ![c] =
              AfterDeployDispatch(
                  Logged(@, Call("deployDispatch", originalOwner, originalRepo,
                                 DispatchRequest(@.env), a.res)),
                  a.res)]
    /\ UNCHANGED <<cfg, started>>

(***************************************************************************)
(* The page (Home), deploy/route.ts lines 53-172                           *)
(***************************************************************************)
\* What the user can type into the secret field.
PageSecrets == { <<>>, <<" ">>, <<"a">>, <<" ", "A">>, <<"b", "!">>, <<"0">> }

\* A fetch of the page that is pending: the button it came from and the body
\* that was sent.
NoFetch == [kind |-> "none", body |-> Body("object", JsUndefined, JsUndefined)]

\* lines 58-60: useState(null), useState(""), useState("")
PageInit ==
    [loading |-> "null", msg |-> <<>>, mySecret |-> <<>>,
     fetch |-> [c \in Clients |-> NoFetch]]

Pending == {c \in Clients : page.fetch[c].kind # "none"}

\* The browser sends each request on a connection that is not in use.
FreeFetches == Clients \ Pending
FreeFetch == IF "c1" \in FreeFetches THEN "c1" ELSE "c2"

\* line 130: onChange of the secret field
PageType(secret) ==
    /\ page' = [page EXCEPT !.mySecret = secret]
    /\ UNCHANGED <<cfg, run, remote, started>>

MutDeployDisabled == FALSE

\* lines 152 and 160: disabled={!!loading}
DeployDisabled == page.loading # "null"

\* line 135: disabled={!!loading || !mySecret.trim()}
ForkDisabled == page.loading # "null" \/ Trim(page.mySecret) = <<>>

\* lines 63-70 and 90-97: setLoading, setMsg("") and the fetch
Fetching(kind, c, body) ==
    [page EXCEPT !.loading = kind, !.msg = <<>>, !.fetch[c] = [kind |-> kind, body |-> body]]

\* lines 62-70: a click on "Deploy Preview" or "Deploy Production"; a disabled
\* button takes no click
PageClickDeploy(env) ==
    /\ IF DeployDisabled THEN UNCHANGED page
       ELSE /\ FreeFetches # {}
            /\ page' = Fetching(env, FreeFetch, Body("object", JsUndefined, JsString(<<env>>)))
    /\ UNCHANGED <<cfg, run, remote, started>>

\* lines 84-97: a click on "Create New Repo & Deploy"
PageClickFork ==
    /\ IF ForkDisabled THEN UNCHANGED page
       ELSE IF Trim(page.mySecret) = <<>>
           THEN page' = [page EXCEPT !.msg = <<"(cross) Please enter a secret value">>]
       ELSE /\ FreeFetches # {}
            /\ page' = Fetching("fork", FreeFetch,
                                Body("object", JsString(Trim(page.mySecret)), JsUndefined))
    /\ UNCHANGED <<cfg, run, remote, started>>

\* What /api/deploy answers to a body: the handler's validation, and for a
\* request that passes it the response for each answer of the remote.
DeployAnswers(body) ==
    LET r == DeployValidate(NewRun("deploy", body))
    IN  IF r.pc = "done" THEN {r.resp.body}
        ELSE { AfterDeployDispatch(r, a.res).resp.body :
                 a \in RemoteDispatch(remote, originalOwner, originalRepo, workflowFile,
                                      DispatchRequest(r.env)) }

\* What /api/fork-and-deploy answers to a body: the handler's validation, and
\* for a request that passes it the success response (forked in the
\* organization, or created in the personal account) or the error response of
\* one of its steps.
ForkAnswers(body) ==
    LET r == ForkValidate(NewRun("fork", body))
    IN  IF r.pc = "done" THEN {r.resp.body}
        ELSE { Success([r EXCEPT !.newOwner = originalOwner, !.wasForked = TRUE]).body,
               Success([r EXCEPT !.newOwner = UserLogin]).body,
               CreationFailed(r, <<Thrown.body.text>>).resp.body,
               WranglerFailed(r, <<"Failed to get wrangler.toml">>).resp.body,
               SecretsFailed(r, <<"Failed to get repository public key">>).resp.body,
               DeploymentFailed(r, <<Thrown.body.text>>).resp.body }

\* lines 72-76 and 99-103: the message for the data of the response (the
\* pictographs of the source are written by their names, in brackets)
PageMessage(kind, data) ==
    IF ~data.ok THEN <<"(cross) ">> \o data.error
    ELSE IF kind = "fork"
        THEN <<"(check) Repository created and deployed! Repo: ">> \o data.repoName
                \o <<"\n(link) Preview URL: ">> \o data.previewUrl
                \o <<"\n(memo) GitHub: ">> \o data.repoUrl
    ELSE <<"(check) ", kind, " deploy queued with MY_SECRET. Check: ">> \o data.actionsUrl

\* lines 77-78 and 104-105: the message of the catch
PageFailure(kind) ==
    IF kind = "fork" THEN <<"(warning) Failed to create repository and deploy">>
    ELSE <<"(warning) Failed to hit /api/deploy">>

\* lines 79-81 and 106-108: finally setLoading(null)
Settled(c, msg) == [page EXCEPT !.loading = "null", !.msg = msg, !.fetch[c] = NoFetch]

\* lines 71-76 and 98-103: the response arrived and was read
PageFetchResolves(c) ==
    /\ page.fetch[c].kind # "none"
    /\ \E data \in IF page.fetch[c].kind = "fork"
                   THEN ForkAnswers(page.fetch[c].body)
                   ELSE DeployAnswers(page.fetch[c].body) :
          page' = Settled(c, PageMessage(page.fetch[c].kind, data))
    /\ UNCHANGED <<cfg, run, remote, started>>

\* lines 77-78 and 104-105: fetch rejected, or the response could not be read
PageFetchRejects(c) ==
    /\ page.fetch[c].kind # "none"
    /\ page' = Settled(c, PageFailure(page.fetch[c].kind))
    /\ UNCHANGED <<cfg, run, remote, started>>

(***************************************************************************)
(* Specifications                                                          *)
(***************************************************************************)
\* The source repository exists; no request has been received.
Init ==
    /\ cfg \in SUBSET ConfigNames
    /\ run = [c \in Clients |-> IdleRun]
    /\ remote = [k \in {SourceKey} |-> [head |-> SourceCommit]]
    /\ started = 0
    /\ page = PageInit

\* No request of any client is being handled.
Quiet == \A c \in Clients : run[c].pc \in {"idle", "done"}

ForkStep(c) ==
    \/ ForkRepository(c)
    \/ CreateInOrganization(c)
    \/ CreateInPersonalAccount(c)
    \/ CopyGetSourceTree(c)
    \/ CopyGetTargetRef(c)
    \/ CopyCreateTree(c)
    \/ CopyCreateCommit(c)
    \/ CopyUpdateRef(c)
    \/ EnableGitHubActions(c)
    \/ GetWranglerFile(c)
    \/ PutWranglerFile(c)
    \/ GetPublicKey(c)
    \/ PutSecret(c)
    \/ CheckWorkflow(c)
    \/ DispatchWorkflow(c)

\* The page: one request at a time, the next when the last one was answered.
Next ==
    \/ \E b \in ForkBodies : Quiet /\ ForkPOST("c1", b) /\ UNCHANGED page
    \/ \E b \in DeployBodies : Quiet /\ DeployPOST("c1", b) /\ UNCHANGED page
    \/ ForkStep("c1") /\ UNCHANGED page
    \/ DeployDispatch("c1") /\ UNCHANGED page

Spec == Init /\ [][Next]_vars

\* Two clients at once on a fully configured server, each with one fork-and-deploy
\* request; the two secrets differ and have the same slug, so both requests name
\* the same repository. Their remote calls interleave in any order.
ConcurrentBody ==
    [c1 |-> Body("object", JsString(<<"a">>), JsUndefined),
     c2 |-> Body("object", JsString(<<" ", "A">>), JsUndefined)]

InitConcurrent ==
    /\ cfg = ConfigNames
    /\ run = [c \in Clients |-> IdleRun]
    /\ remote = [k \in {SourceKey} |-> [head |-> SourceCommit]]
    /\ started = 0
    /\ page = PageInit

NextConcurrent ==
    \E c \in Clients :
        \/ run[c].pc = "idle" /\ ForkPOST(c, ConcurrentBody[c]) /\ UNCHANGED page
        \/ ForkStep(c) /\ UNCHANGED page

SpecConcurrent == InitConcurrent /\ [][NextConcurrent]_vars

\* The handler goes on whenever it can: every remote call is answered or fails
\* (fetch resolves or rejects), and the awaiting handler then runs to its next
\* call or to its response.
\* It starts from a server with nothing configured, with the source-control
\* values alone, or with everything configured.
FairConfigs == { {}, {"GITHUB_PAT", "GITHUB_OWNER", "GITHUB_REPO"}, ConfigNames }

InitFair ==
    /\ cfg \in FairConfigs
    /\ run = [c \in Clients |-> IdleRun]
    /\ remote = [k \in {SourceKey} |-> [head |-> SourceCommit]]
    /\ started = 0
    /\ page = PageInit

SpecFair ==
    InitFair /\ [][Next]_vars
        /\ WF_vars((ForkStep("c1") \/ DeployDispatch("c1")) /\ UNCHANGED page)

\* One fork-and-deploy request on a fully configured server, its secret any
\* string of at most MaxSecretLen characters of SecretAlphabet, or one of
\* SpecialSecrets.
MaxSecretLen == 2
SecretAlphabet == {" ", "A", "a", "0", "-", "!", "É"}
SpecialSecrets ==
    { <<"M", "y", "C", "o", " ", "2", "0", "2", "4", "!">>,
      <<"P", "r", "e", "v", "i", "e", "w">>,
      <<"a", "$", "$">>,
      <<"$", "&">> }
SecretInputs ==
    UNION { [1..n -> SecretAlphabet] : n \in 0..MaxSecretLen } \cup SpecialSecrets

NextInputs ==
    \/ \E s \in SecretInputs :
          /\ run["c1"].pc = "idle"
          /\ ForkPOST("c1", Body("object", JsString(s), JsUndefined))
          /\ UNCHANGED page
    \/ ForkStep("c1") /\ UNCHANGED page

SpecInputs == InitConcurrent /\ [][NextInputs]_vars

\* The page in front of a fully configured server: the user types and clicks
\* in any order, and every fetch of the page resolves with an answer of its
\* endpoint or rejects.
NextPage ==
    \/ \E s \in PageSecrets : PageType(s)
    \/ PageClickDeploy("preview")
    \/ PageClickDeploy("production")
    \/ PageClickFork
    \/ \E c \in Clients : PageFetchResolves(c)
    \/ \E c \in Clients : PageFetchRejects(c)

\* A pending fetch resolves or rejects in the end, and the page goes on then.
SpecPage ==
    InitConcurrent /\ [][NextPage]_vars
        /\ \A c \in Clients : WF_vars(PageFetchResolves(c) \/ PageFetchRejects(c))

(***************************************************************************)
(* Claims                                                                  *)
(***************************************************************************)
CallsOf(c) == run[c].calls
Failed(call) == call.res.kind # "ok"

\* what the handler of c does after its i-th call: the next call, or "done"
NextOp(c, i) == IF i < Len(CallsOf(c)) THEN CallsOf(c)[i + 1].op ELSE run[c].pc

EndedWithError(c) ==
    /\ run[c].pc = "done"
    /\ ~run[c].resp.body.ok
    /\ run[c].resp.status \in {400, 500}

\* the i-th call of c is the last one, and the request was answered with an error
StopsRun(c, i) == i = Len(CallsOf(c)) /\ EndedWithError(c)

HasCall(c, op) == \E i \in 1..Len(CallsOf(c)) : CallsOf(c)[i].op = op

\* the answer the fallback chain starts from: 403 with "forking is disabled"
SaysForkingDisabled(res) ==
    /\ res.kind = "err"
    /\ res.status = 403
    /\ res.body.json
    /\ res.body.message.t = "string"
    /\ Includes(res.body.message.v, <<"forking", "is", "disabled">>)

\* C1: in a fork-and-deploy run a failed remote call (a non-success status or
\* a rejected fetch) is the last call of the run and the run is answered
\* ok:false, unless the call is the enable-CI call, a secret upload, a fork
\* that the organization create replaces, or an organization create that the
\* personal create replaces.
C1_FailureStopsRun ==
    \A c \in Clients : \A i \in 1..Len(CallsOf(c)) :
        (run[c].endpoint = "fork" /\ Failed(CallsOf(c)[i])) =>
            \/ StopsRun(c, i)
            \/ CallsOf(c)[i].op \in {"enableActions", "putSecret"}
            \/ CallsOf(c)[i].op = "fork" /\ NextOp(c, i) = "createOrg"
            \/ CallsOf(c)[i].op = "createOrg" /\ NextOp(c, i) = "createUser"

C1_Witness ==
    \E c \in Clients :
        /\ EndedWithError(c)
        /\ Len(CallsOf(c)) >= 3
        /\ CallsOf(c)[Len(CallsOf(c))].op = "putWrangler"
        /\ Failed(CallsOf(c)[Len(CallsOf(c))])
        /\ \E i \in 1..Len(CallsOf(c)) :
              CallsOf(c)[i].op = "enableActions" /\ Failed(CallsOf(c)[i])

\* The acquire-repository step around the i-th call of c; orgCreateFailed says
\* whether that call, when it is the organization create, counts as failed.
AcquireOrder(c, i, orgCreateFailed) ==
    LET call == CallsOf(c)[i] IN
    /\ call.op = "fork" =>
          /\ NextOp(c, i) = "createOrg" <=> SaysForkingDisabled(call.res)
          /\ (Failed(call) /\ ~SaysForkingDisabled(call.res)) =>
                (StopsRun(c, i) /\ ~HasCall(c, "createOrg") /\ ~HasCall(c, "createUser"))
    /\ call.op = "createOrg" =>
          /\ i > 1 /\ CallsOf(c)[i - 1].op = "fork"
          /\ NextOp(c, i) = "createUser" <=> orgCreateFailed
    /\ call.op = "createUser" => i > 1 /\ CallsOf(c)[i - 1].op = "createOrg"
    /\ call.op = "getSourceTree" =>
          /\ i > 1
          /\ CallsOf(c)[i - 1].op \in {"createOrg", "createUser"}
          /\ CallsOf(c)[i - 1].res.kind = "ok"

NoSecret(body) ==
    /\ body.json = "object"
    /\ \/ body.secret.t = "undefined"
       \/ body.secret.t = "string" /\ \A i \in 1..Len(body.secret.v) : body.secret.v[i] \in Whitespace

\* C3: a fork-and-deploy request whose secret is missing, empty or
\* whitespace-only is answered ok:false with status 400 ("Secret is required")
\* and without any remote call, whatever the configuration.
C3_NoSecretIsInvalidInput ==
    \A c \in Clients :
        (run[c].endpoint = "fork" /\ NoSecret(run[c].body)) =>
            /\ run[c].pc = "done"
            /\ run[c].resp = NextResponseJson(ErrorBody(<<"Secret is required">>), 400)
            /\ CallsOf(c) = <<>>

C3_Witness ==
    \E c \in Clients :
        /\ run[c].endpoint = "fork"
        /\ run[c].body.secret = JsString(<<" ", "\t">>)
        /\ run[c].pc = "done"
        /\ cfg = {}

\* the secret of the request is a string that is not blank
ValidSecret(body) ==
    /\ body.json = "object"
    /\ body.secret.t = "string"
    /\ \E i \in 1..Len(body.secret.v) : body.secret.v[i] \notin Whitespace

ForkConfigNames ==
    {"GITHUB_PAT", "GITHUB_OWNER", "GITHUB_REPO", "CLOUDFLARE_API_TOKEN", "CLOUDFLARE_ACCOUNT_ID"}
DeployConfigNames == {"GITHUB_OWNER", "GITHUB_REPO", "GITHUB_PAT"}

\* C4: with a required configuration value absent, a fork-and-deploy request
\* with a valid secret and a deploy request (whose body is not the JSON null)
\* are answered ok:false with status 500 and a missing-configuration error,
\* and no remote call is made.
C4_ConfigurationMissing ==
    \A c \in Clients :
        /\ (run[c].endpoint = "fork" /\ ValidSecret(run[c].body)
                /\ ~(ForkConfigNames \subseteq cfg)) =>
              /\ run[c].pc = "done"
              /\ run[c].resp \in
                    {NextResponseJson(ErrorBody(<<"Missing GitHub configuration">>), 500),
                     NextResponseJson(ErrorBody(<<"Missing Cloudflare configuration">>), 500)}
              /\ CallsOf(c) = <<>>
        /\ (run[c].endpoint = "deploy" /\ ~(DeployConfigNames \subseteq cfg)) =>
              /\ run[c].pc = "done"
              /\ ~run[c].resp.body.ok
              /\ run[c].resp.status = 500
              /\ run[c].body.json # "null" =>
                    run[c].resp.body.error = <<"Missing GITHUB_* env vars on server">>
              /\ CallsOf(c) = <<>>

C4_Witness ==
    \E c \in Clients :
        /\ run[c].endpoint = "fork"
        /\ ValidSecret(run[c].body)
        /\ cfg = ConfigNames \ {"CLOUDFLARE_ACCOUNT_ID"}
        /\ run[c].pc = "done"

\* C5: in the fork flow the dispatch call is made only right after a
\* workflow-existence check that succeeded; when the check is answered with a
\* non-success status the run ends there with an error response, and the run
\* holds no dispatch call.
C5_DispatchOnlyAfterWorkflowCheck ==
    \A c \in Clients : \A i \in 1..Len(CallsOf(c)) :
        /\ CallsOf(c)[i].op = "dispatch" =>
              /\ i > 1
              /\ CallsOf(c)[i - 1].op = "getWorkflow"
              /\ CallsOf(c)[i - 1].res.kind = "ok"
        /\ (CallsOf(c)[i].op = "getWorkflow" /\ CallsOf(c)[i].res.kind = "err") =>
              /\ StopsRun(c, i)
              /\ ~HasCall(c, "dispatch")

C5_Witness ==
    \E c \in Clients :
        /\ EndedWithError(c)
        /\ Len(CallsOf(c)) >= 1
        /\ CallsOf(c)[Len(CallsOf(c))].op = "getWorkflow"
        /\ CallsOf(c)[Len(CallsOf(c))].res.status = 404
        /\ ~HasCall(c, "dispatch")

\* The end of a fork-and-deploy run, with "accepted" left open.
DispatchDecides(c, accepted(_)) ==
    /\ (run[c].endpoint = "fork" /\ run[c].pc = "done" /\ run[c].resp.body.ok) =>
          /\ Len(CallsOf(c)) >= 1
          /\ CallsOf(c)[Len(CallsOf(c))].op = "dispatch"
          /\ accepted(CallsOf(c)[Len(CallsOf(c))].res)
    /\ \A i \in 1..Len(CallsOf(c)) :
          (CallsOf(c)[i].op = "dispatch" /\ ~accepted(CallsOf(c)[i].res)) => StopsRun(c, i)

Is204(res) == res.kind # "throw" /\ res.status = 204
Is2xx(res) == res.kind # "throw" /\ res.status \in 200..299

\* C6 as stated: the run responds ok:true only if the dispatch was answered 204,
\* and every other dispatch status ends the run with an error response.
C6_AsStated == \A c \in Clients : DispatchDecides(c, Is204)

\* C6, amended: the run reaches Finalize and responds ok:true only if the
\* workflow dispatch was answered with a success status (200-299, of which 204
\* is the one the deploy trigger accepts); a dispatch answered with any other
\* status, or whose fetch rejects, ends the run with an error response.
C6_DispatchSuccessDecides == \A c \in Clients : DispatchDecides(c, Is2xx)

C6_Witness ==
    \E c \in Clients :
        /\ run[c].endpoint = "fork" /\ run[c].pc = "done" /\ run[c].resp.body.ok
        /\ CallsOf(c)[Len(CallsOf(c))].res.status = 204

\* C7 as stated: once the public key was fetched, the two uploads follow in the
\* order API token, account id, whatever the result of each, and the workflow
\* check follows the second; a failure to fetch the key ends the run with an
\* error.
C7_AsStated ==
    \A c \in Clients : \A i \in 1..Len(CallsOf(c)) :
        CallsOf(c)[i].op = "getPublicKey" =>
            IF Failed(CallsOf(c)[i]) THEN StopsRun(c, i)
            ELSE /\ NextOp(c, i) = "putSecret"
                 /\ i + 1 <= Len(CallsOf(c)) =>
                       /\ CallsOf(c)[i + 1].req.name = "CLOUDFLARE_API_TOKEN"
                       /\ NextOp(c, i + 1) = "putSecret"
                 /\ i + 2 <= Len(CallsOf(c)) =>
                       /\ CallsOf(c)[i + 2].req.name = "CLOUDFLARE_ACCOUNT_ID"
                       /\ NextOp(c, i + 2) = "getWorkflow"

\* C8: the enable-CI call is made exactly once, right after a fork that
\* succeeded, and never in a run that created the repository; whatever its
\* result, the next step of the run is the read of the configuration file.
C8_EnableActionsBestEffort ==
    \A c \in Clients :
        /\ \A i, j \in 1..Len(CallsOf(c)) :
              (CallsOf(c)[i].op = "enableActions" /\ CallsOf(c)[j].op = "enableActions") => i = j
        /\ (run[c].wasForked /\ run[c].pc # "enableActions") => HasCall(c, "enableActions")
        /\ (~run[c].wasForked \/ HasCall(c, "createOrg")) => ~HasCall(c, "enableActions")
        /\ \A i \in 1..Len(CallsOf(c)) :
              CallsOf(c)[i].op = "enableActions" =>
                  /\ i > 1
                  /\ CallsOf(c)[i - 1].op = "fork" /\ CallsOf(c)[i - 1].res.kind = "ok"
                  /\ NextOp(c, i) = "getWrangler"

C8_Witness ==
    \E c \in Clients : \E i \in 1..Len(CallsOf(c)) :
        /\ CallsOf(c)[i].op = "enableActions"
        /\ CallsOf(c)[i].res.kind = "throw"
        /\ i < Len(CallsOf(c))
        /\ CallsOf(c)[i + 1].op = "getWrangler"

CopyOps == <<"getSourceTree", "getTargetRef", "createTree", "createCommit", "updateRef">>

\* C9: the copy runs only in a run that created the repository, its calls come
\* in the order source tree, destination head, create tree, create commit,
\* update branch, each after the one before succeeded; the commit has the new
\* tree as its tree and the destination head that was read as its only parent;
\* the branch is set to that commit; a failed copy call is the last call of the
\* run, which ends with an error and leaves the destination branch at the
\* commit it was created with.
C9_CopyOrder ==
    \A c \in Clients : \A i \in 1..Len(CallsOf(c)) : \A k \in 1..Len(CopyOps) :
        CallsOf(c)[i].op = CopyOps[k] =>
            /\ ~run[c].wasForked
            /\ i > 1
            /\ CallsOf(c)[i - 1].res.kind = "ok"
            /\ IF k = 1
               THEN CallsOf(c)[i - 1].op \in {"createOrg", "createUser"}
               ELSE CallsOf(c)[i - 1].op = CopyOps[k - 1]
            /\ k = 4 =>
                  /\ CallsOf(c)[i].req.tree = CallsOf(c)[i - 1].res.body.sha
                  /\ CallsOf(c)[i].req.parents = <<CallsOf(c)[i - 2].res.body.object.sha>>
            /\ k = 5 => CallsOf(c)[i].req.sha = CallsOf(c)[i - 1].res.body.sha
            /\ Failed(CallsOf(c)[i]) =>
                  /\ StopsRun(c, i)
                  /\ remote[<<run[c].newOwner, run[c].newRepoName>>].head = InitCommit
            /\ (k = 5 /\ ~Failed(CallsOf(c)[i])) => NextOp(c, i) = "getWrangler"

C9_Witness ==
    \E c \in Clients :
        /\ run[c].pc = "done" /\ run[c].resp.body.ok
        /\ HasCall(c, "createUser")
        /\ HasCall(c, "updateRef")

\* C10: the write of the configuration file carries the hash that the read of
\* the same run returned; when the file on the remote is no longer the one
\* that was read, the write changes nothing on the remote and the run ends
\* there with an error response; a run whose write failed makes no further
\* call (no secret upload, no dispatch).
C10_StaleWriteRejected ==
    /\ [][\A c \in Clients :
            (run[c].pc = "putWrangler" /\ run'[c].pc # "putWrangler") =>
                LET now == FileAt(remote, <<run[c].newOwner, run[c].newRepoName>>, WranglerPath)
                    n == Len(run'[c].calls)
                IN  /\ n = Len(run[c].calls) + 1
                    /\ run[c].calls[n - 1].op = "getWrangler"
                    /\ run'[c].calls[n].op = "putWrangler"
                    /\ run'[c].calls[n].req.sha = run[c].calls[n - 1].res.body.sha
                    /\ (\A e \in now : e.sha # run[c].calls[n - 1].res.body.sha) =>
                          /\ remote' = remote
                          /\ run'[c].pc = "done"
                          /\ run'[c].resp.status = 500
                          /\ ~run'[c].resp.body.ok]_vars
    /\ [](\A c \in Clients : \A i \in 1..Len(CallsOf(c)) :
            (CallsOf(c)[i].op = "putWrangler" /\ Failed(CallsOf(c)[i])) => StopsRun(c, i))

C10_Witness ==
    \E c, d \in Clients :
        /\ c # d
        /\ run[c].newOwner = run[d].newOwner /\ run[c].newRepoName = run[d].newRepoName
        /\ \E j \in 1..Len(CallsOf(d)) :
              CallsOf(d)[j].op = "putWrangler" /\ CallsOf(d)[j].res.kind = "ok"
        /\ EndedWithError(c)
        /\ CallsOf(c)[Len(CallsOf(c))].op = "putWrangler"
        /\ CallsOf(c)[Len(CallsOf(c))].res.kind = "err"
        /\ \A e \in FileAt(remote, <<run[c].newOwner, run[c].newRepoName>>, WranglerPath) :
              e.sha # CallsOf(c)[Len(CallsOf(c))].req.sha

\* C11: for every status the dispatch call of the deploy trigger is answered
\* with, the request is answered ok:true, with the actions URL and the env
\* that was dispatched, exactly when the status is 204; with any other status
\* the answer is ok:false with status 500, and its error holds the remote's
\* status and the remote's body as received.
C11_DeployStatusDecides ==
    \A c \in Clients : \A i \in 1..Len(CallsOf(c)) :
        LET call == CallsOf(c)[i] IN
        (call.op = "deployDispatch" /\ call.res.kind # "throw") =>
            /\ run[c].pc = "done"
            /\ i = Len(CallsOf(c))
            /\ run[c].resp.body.ok <=> call.res.status = 204
            /\ IF call.res.status = 204
               THEN /\ run[c].resp.status = 200
                    /\ run[c].resp.body.actionsUrl =
                          <<"https://github.com/", "<owner>", "/", "<repo>", "/actions/workflows/">>
                              \o workflowFile
                    /\ run[c].resp.body.env = call.req.inputs.env
               ELSE /\ run[c].resp.status = 500
                    /\ Includes(run[c].resp.body.error, <<ToString(call.res.status)>>)
                    /\ Includes(run[c].resp.body.error, <<call.res.body.text>>)

C11_Witness ==
    \E c \in Clients :
        /\ run[c].endpoint = "deploy" /\ run[c].pc = "done"
        /\ Len(CallsOf(c)) = 1
        /\ CallsOf(c)[1].res.kind = "ok" /\ CallsOf(c)[1].res.status = 200
        /\ run[c].resp = NextResponseJson(
                ErrorBody(<<"GitHub API error (", "200", "): ", "{queued}">>), 500)

\* The environment of a deploy request, with "present" left open.
EnvForwarded(c, present(_)) ==
    LET body == run[c].body
        expected == IF body.json = "object" /\ present(body.env) THEN body.env.v
                    ELSE <<"preview">>
    IN  run[c].endpoint = "deploy" =>
          /\ \A i \in 1..Len(CallsOf(c)) :
                CallsOf(c)[i].req = [ref |-> "main", inputs |-> [env |-> expected]]
          /\ (run[c].pc = "done" /\ run[c].resp.body.ok) => run[c].resp.body.env = expected
          /\ (DeployConfigured /\ body.json # "null") =>
                \/ run[c].pc = "deployDispatch"
                \/ run[c].pc = "done" /\ Len(CallsOf(c)) = 1

EnvGiven(env) == env.t # "undefined"
EnvNotEmpty(env) == env.t # "undefined" /\ env.v # <<>>

\* C12 as stated: the env of the body is forwarded and echoed unchanged
\* whenever the body holds one, and "preview" otherwise.
C12_AsStated == \A c \in Clients : EnvForwarded(c, EnvGiven)

\* C12, amended: the env forwarded in the dispatch call and echoed in the
\* success response is the body's env unchanged when the body holds a
\* non-empty env (inside {preview, production} or not), and "preview" when env
\* is absent or the empty string or the body cannot be parsed; a body that is
\* the JSON null is answered with an error and no dispatch call.
C12_EnvForwarded ==
    \A c \in Clients :
        /\ EnvForwarded(c, EnvNotEmpty)
        /\ (run[c].endpoint = "deploy" /\ run[c].body.json = "null") =>
              /\ EndedWithError(c)
              /\ CallsOf(c) = <<>>

C12_Witness ==
    \E c \in Clients :
        /\ run[c].endpoint = "deploy"
        /\ run[c].body.env = JsString(<<"staging">>)
        /\ run[c].pc = "done"
        /\ run[c].resp.body.ok
        /\ run[c].resp.body.env = <<"staging">>
        /\ CallsOf(c)[1].req.inputs.env = <<"staging">>

\* C13: sanitization is total and idempotent: every secret that passes the
\* validation has a slug, as long as the trimmed secret, that holds only
\* lowercase letters, digits and hyphens, and sanitizing the slug gives the
\* slug again.
C13_SanitizeIdempotent ==
    \A c \in Clients :
        (run[c].endpoint = "fork" /\ ValidSecret(run[c].body)) =>
            LET slug == run[c].cleanSecret IN
            /\ Len(slug) = Len(Trim(run[c].body.secret.v))
            /\ Len(slug) >= 1
            /\ \A i \in 1..Len(slug) : slug[i] \in LowerCase \cup Digits \cup {"-"}
            /\ CleanSecret(slug) = slug

C13_Witness ==
    \E c \in Clients :
        /\ run[c].endpoint = "fork"
        /\ run[c].body.secret = JsString(<<" ", "É">>)
        /\ run[c].cleanSecret = <<"-">>

\* the calls of c that acquired its repository: a fork or a create that succeeded
Acquired(c) ==
    {i \in 1..Len(CallsOf(c)) :
        /\ CallsOf(c)[i].op \in {"fork", "createOrg", "createUser"}
        /\ CallsOf(c)[i].res.kind = "ok"}

\* C14: a fork-and-deploy run that succeeded, with slug s of its secret and
\* owner o named in the answer of the fork or create that succeeded, answers
\* repoName "<repo>-s", repoUrl "https://github.com/o/<repo>-s", previewUrl
\* "https://<repo>-s-preview.o.workers.dev", and a message that says "forked"
\* when the fork succeeded and "created" when a create did.
C14_NamesAndUrls ==
    \A c \in Clients :
        (run[c].endpoint = "fork" /\ run[c].pc = "done" /\ run[c].resp.body.ok) =>
            /\ Cardinality(Acquired(c)) = 1
            /\ \A i \in Acquired(c) :
                  LET o == CallsOf(c)[i].res.body.owner.login
                      name == <<"<repo>", "-">> \o CleanSecret(run[c].body.secret.v)
                      out == run[c].resp.body
                  IN  /\ out.repoName = name
                      /\ out.repoUrl = <<"https://github.com/">> \o o \o <<"/">> \o name
                      /\ out.previewUrl =
                            <<"https://">> \o name \o PreviewSuffix \o <<".">> \o o
                                \o <<".workers.dev">>
                      /\ out.message =
                            IF CallsOf(c)[i].op = "fork"
                            THEN <<"Repository forked and deployment triggered successfully!">>
                            ELSE <<"Repository created and deployment triggered successfully!">>

C14_Witness ==
    \E c \in Clients :
        /\ run[c].endpoint = "fork" /\ run[c].pc = "done" /\ run[c].resp.body.ok
        /\ run[c].body.secret = JsString(<<"M", "y", "C", "o", " ", "2", "0", "2", "4", "!">>)
        /\ run[c].resp.body.repoName =
              <<"<repo>", "-", "m", "y", "c", "o", "-", "2", "0", "2", "4", "-">>
        /\ HasCall(c, "createUser")
        /\ run[c].resp.body.repoUrl =
              <<"https://github.com/", "<user>", "/",
                "<repo>", "-", "m", "y", "c", "o", "-", "2", "0", "2", "4", "-">>

\* the remote refused the name of the call because a repository has it
NameRejected(call) ==
    /\ call.op \in {"fork", "createOrg", "createUser"}
    /\ call.res.kind = "err"
    /\ call.res.status = 422
    /\ call.res.body.text = "{name already exists}"

\* the name every fork and create call of c asks for: "<repo>-<slug>"
AsksSlugName(c) ==
    \A i \in 1..Len(CallsOf(c)) :
        CallsOf(c)[i].op \in {"fork", "createOrg", "createUser"} =>
            CallsOf(c)[i].req.name = originalRepo \o <<"-">> \o CleanSecret(run[c].body.secret.v)

\* the run of c ended with an error at its i-th call, before the configuration,
\* the secrets and the dispatch
EndsBeforeRewrite(c, i) ==
    /\ StopsRun(c, i)
    /\ \A op \in {"getWrangler", "putWrangler", "getPublicKey", "putSecret", "dispatch"} :
          ~HasCall(c, op)

\* C15 as stated: the name a run asks for depends on the slug alone, and a run
\* whose name the remote refuses as already existing ends there with an error.
C15_AsStated ==
    \A c \in Clients :
        /\ AsksSlugName(c)
        /\ \A i \in 1..Len(CallsOf(c)) :
              NameRejected(CallsOf(c)[i]) => EndsBeforeRewrite(c, i)

\* C15, amended: a run asks for the name "<repo>-<slug>", so a run whose secret
\* has the slug of an earlier run asks for the same name; when the remote
\* refuses that name as already existing at the fork or at the personal create,
\* the run ends with an error response without rewriting the configuration,
\* uploading a secret or dispatching the workflow; when it is the organization
\* create that refuses the name, the run goes on to the personal create.
C15_NotIdempotent ==
    \A c \in Clients :
        /\ AsksSlugName(c)
        /\ \A i \in 1..Len(CallsOf(c)) :
              NameRejected(CallsOf(c)[i]) =>
                  IF CallsOf(c)[i].op = "createOrg"
                  THEN NextOp(c, i) = "createUser"
                  ELSE EndsBeforeRewrite(c, i)

C15_Witness ==
    \E c \in Clients :
        /\ EndedWithError(c)
        /\ Len(CallsOf(c)) >= 1
        /\ CallsOf(c)[Len(CallsOf(c))].op = "createUser"
        /\ NameRejected(CallsOf(c)[Len(CallsOf(c))])
        /\ \E e \in FileAt(remote, <<UserLogin, run[c].newRepoName>>, WranglerPath) :
              /\ e.sha # OrigWrangler
              /\ e.sha[3].value # run[c].secret

\* the i-th call of c is one whose failure the handler does not tolerate: not
\* the enable-CI call, not a secret upload, not a fork or organization create
\* that the fallback chain replaces
Fatal(c, i) ==
    /\ CallsOf(c)[i].op \notin {"enableActions", "putSecret"}
    /\ ~(CallsOf(c)[i].op = "fork" /\ NextOp(c, i) = "createOrg")
    /\ ~(CallsOf(c)[i].op = "createOrg" /\ NextOp(c, i) = "createUser")

\* C16 as stated: whenever a fatal call of either endpoint is answered with a
\* non-success status, the request is answered ok:false with an HTTP error
\* status and the error text holds the remote's status or the remote's body
\* as received.
C16_AsStated ==
    \A c \in Clients : \A i \in 1..Len(CallsOf(c)) :
        (CallsOf(c)[i].res.kind = "err" /\ Fatal(c, i)) =>
            /\ EndedWithError(c)
            /\ run[c].resp.status >= 400
            /\ \/ Includes(run[c].resp.body.error, <<ToString(CallsOf(c)[i].res.status)>>)
               \/ Includes(run[c].resp.body.error, <<CallsOf(c)[i].res.body.text>>)

\* the remote operation of a call: its kind and, for an upload, the secret
Operation(call) ==
    <<call.op, IF call.op = "putSecret" THEN call.req.name ELSE "">>

\* C17: no remote call is retried: in one run of either endpoint no remote
\* operation is issued twice; and a run has one call in progress at most: a
\* step of the model issues one call of one run, the call of the place the
\* handler of that run is at, after all the earlier calls of the run were
\* answered.
C17_NoRetry ==
    /\ [](\A c \in Clients : \A i, j \in 1..Len(CallsOf(c)) :
            Operation(CallsOf(c)[i]) = Operation(CallsOf(c)[j]) => i = j)
    /\ [][\A c \in Clients :
            run'[c].calls # run[c].calls =>
                /\ \A d \in Clients \ {c} : run'[d].calls = run[d].calls
                /\ \/ run'[c].calls = <<>> /\ run[c].pc \in {"idle", "done"}
                   \/ /\ Len(run'[c].calls) = Len(run[c].calls) + 1
                      /\ SubSeq(run'[c].calls, 1, Len(run[c].calls)) = run[c].calls
                      /\ run'[c].calls[Len(run'[c].calls)].op = run[c].pc]_vars

C17_Witness ==
    \E c \in Clients :
        /\ run[c].endpoint = "fork" /\ run[c].pc = "done" /\ run[c].resp.body.ok
        /\ Len(CallsOf(c)) = 15
        /\ \E i \in 1..Len(CallsOf(c)) :
              /\ CallsOf(c)[i].op = "putSecret"
              /\ CallsOf(c)[i].res.kind = "err"

\* the file of the path lies in a directory of that name, at any depth
InDirectory(path, name) == \E k \in 1..(Len(path) - 1) : path[k] = name

\* C18 as stated: the tree submitted to the destination is the source listing
\* that the run read, without the directories, without the files of a .git
\* directory, without the files of a node_modules directory and without the
\* README.md at the root; every other file is in it with its path, mode, type
\* and sha.
C18_AsStated ==
    \A c \in Clients : \A i \in 1..Len(CallsOf(c)) :
        CallsOf(c)[i].op = "createTree" =>
            /\ i > 2
            /\ CallsOf(c)[i - 2].op = "getSourceTree"
            /\ CallsOf(c)[i].req.tree =
                  {e \in CallsOf(c)[i - 2].res.body.tree :
                      /\ e.type = "blob"
                      /\ ~InDirectory(e.path, ".git/")
                      /\ ~InDirectory(e.path, "node_modules/")
                      /\ e.path # <<"README.md">>}

\* the configuration as the claim has it rewritten, line by line
RewrittenAsStated(content, secret, slug) ==
    [i \in DOMAIN content |->
        IF content[i].key = "name" /\ content[i].value = <<"cf-demo-worker">>
            THEN [key |-> "name", value |-> <<"cf-demo-worker", "-">> \o slug]
        ELSE IF content[i].key = "name" /\ content[i].value = <<"cf-demo-worker">> \o PreviewSuffix
            THEN [key |-> "name", value |-> <<"cf-demo-worker", "-">> \o slug \o PreviewSuffix]
        ELSE IF content[i].key = "MY_SECRET"
                /\ content[i].value \in {<<"dev-secret">>, <<"preview-secret">>,
                                         <<"production-secret">>}
            THEN [key |-> "MY_SECRET", value |-> secret]
        ELSE content[i]]

\* C19 as stated: the configuration that is written is the one that was read
\* with each base name suffixed by the slug, each preview name suffixed by the
\* slug before "-preview", each of the three MY_SECRET values set to the secret
\* as submitted and nothing else changed; names that differed when read differ
\* when written.
C19_AsStated ==
    \A c \in Clients : \A i \in 1..Len(CallsOf(c)) :
        CallsOf(c)[i].op = "putWrangler" =>
            LET read == Base64Decode(CallsOf(c)[i - 1].res.body.content)
                written == Base64Decode(CallsOf(c)[i].req.content)
            IN  /\ written = RewrittenAsStated(read, run[c].body.secret.v,
                                               CleanSecret(run[c].body.secret.v))
                /\ \A j, k \in DOMAIN read :
                      (read[j].key = "name" /\ read[k].key = "name"
                          /\ read[j].value # read[k].value) =>
                          written[j].value # written[k].value

\* the calls a run makes on the repository it acquired
AfterAcquired ==
    {"enableActions", "getWrangler", "putWrangler", "getPublicKey", "putSecret",
     "getWorkflow", "dispatch"}

\* C20 as stated: every call after the repository was acquired (enable CI,
\* configuration read and write, public-key read, secret uploads, workflow
\* check, dispatch) is addressed to the owner that the answer of the fork or
\* create named, and to the new repository name.
C20_AsStated ==
    \A c \in Clients : \A i \in 1..Len(CallsOf(c)) :
        CallsOf(c)[i].op \in AfterAcquired =>
            /\ Cardinality(Acquired(c)) = 1
            /\ \A a \in Acquired(c) :
                  /\ a < i
                  /\ CallsOf(c)[i].owner = CallsOf(c)[a].res.body.owner.login
                  /\ CallsOf(c)[i].repo = CallsOf(c)[a].req.name

\* the first label of the host of a URL "https://label.rest": the service name
ServiceOfUrl(url) ==
    LET host == Tail(url)
        dot == CHOOSE i \in 1..Len(host) :
                  host[i] = "." /\ \A j \in 1..(i - 1) : host[j] # "."
    IN  SubSeq(host, 1, dot - 1)

\* the line of the configuration file that names the preview service
PreviewNameLine ==
    CHOOSE i \in DOMAIN OrigWrangler :
        OrigWrangler[i] = [key |-> "name", value |-> <<"cf-demo-worker">> \o PreviewSuffix]

\* C21 as stated: in every fork-and-deploy run that succeeded, the service
\* name in the host of the predicted preview URL is the preview service name
\* that the run's write of the configuration file carried.
C21_AsStated ==
    \A c \in Clients :
        (run[c].endpoint = "fork" /\ run[c].pc = "done" /\ run[c].resp.body.ok) =>
            \A i \in 1..Len(CallsOf(c)) :
                CallsOf(c)[i].op = "putWrangler" =>
                    ServiceOfUrl(run[c].resp.body.previewUrl) =
                        Base64Decode(CallsOf(c)[i].req.content)[PreviewNameLine].value

\* C22 as stated: after a copy that succeeded, the commit the destination
\* branch was set to has, in its tree, the README.md of its parent (the
\* commit the destination was created with) next to the copied source files.
C22_AsStated ==
    \A c \in Clients : \A i \in 1..Len(CallsOf(c)) :
        (CallsOf(c)[i].op = "updateRef" /\ CallsOf(c)[i].res.kind = "ok") =>
            LET head == CallsOf(c)[i].res.body.object.sha
                parent == head.parents[1]
            IN  /\ CallsOf(c)[i - 2].req.tree \subseteq head.tree
                /\ \A e \in parent.tree : e.path = ReadmePath => e \in head.tree

\* C23: in every run of either endpoint, once received a request is eventually
\* answered (each remote call being answered or failing, the handler goes on);
\* no response is sent before the run ends and the response of an ended run
\* stays as it is until another request is received; it is a JSON body with an ok field, and with ok false its
\* HTTP status is 400 or 500.
C23_EndsWithOneResponse ==
    /\ [](\A c \in Clients :
            /\ run[c].pc # "done" => run[c].resp = NoResponse
            /\ run[c].pc = "done" =>
                  /\ "ok" \in DOMAIN run[c].resp.body
                  /\ run[c].resp.body.ok \in BOOLEAN
                  /\ run[c].resp # NoResponse
                  /\ ~run[c].resp.body.ok => run[c].resp.status \in {400, 500})
    /\ [][\A c \in Clients :
            (run[c].pc = "done" /\ started' = started) =>
                (run'[c].pc = "done" /\ run'[c].resp = run[c].resp)]_vars
    /\ \A c \in Clients : (run[c].pc # "idle") ~> (run[c].pc = "done")

\* a run of each endpoint whose last remote call made fetch reject was answered
C23_Witness ==
    \E c \in Clients :
        /\ run[c].pc = "done"
        /\ run[c].endpoint = "fork"
        /\ Len(CallsOf(c)) > 1
        /\ CallsOf(c)[Len(CallsOf(c))].res.kind = "throw"
        /\ CallsOf(c)[Len(CallsOf(c))].op = "createCommit"
        /\ run[c].resp.status = 500
        /\ ~run[c].resp.body.ok

\* C24: in the page, a request is started only while loading is null, and
\* loading is then the button's name; loading is not null exactly while a
\* fetch of the page is pending, so at most one is pending at a time; when a
\* pending fetch resolves or rejects loading is null again, and every request
\* that was started is settled in the end, whatever its answer; a click on the
\* fork button while the secret is empty or blank starts no request and
\* leaves loading as it is.
C24_OneRequestAtATime ==
    /\ [](/\ Cardinality(Pending) <= 1
          /\ page.loading = "null" <=> Pending = {}
          /\ \A c \in Pending : page.fetch[c].kind = page.loading)
    /\ [][/\ (\E c \in Clients : page.fetch[c].kind = "none" /\ page'.fetch[c].kind # "none") =>
                /\ page.loading = "null"
                /\ page'.loading \in {"preview", "production", "fork"}
          /\ (\E c \in Clients : PageFetchResolves(c) \/ PageFetchRejects(c)) =>
                page'.loading = "null"
          /\ (PageClickFork /\ Trim(page.mySecret) = <<>>) =>
                /\ page'.loading = page.loading
                /\ page'.fetch = page.fetch]_vars
    /\ (page.loading # "null") ~> (page.loading = "null")

\* a fork request was answered with an error and shown, the secret was then
\* blanked, and loading is null with nothing pending
C24_Witness ==
    /\ page.loading = "null"
    /\ Pending = {}
    /\ page.msg = <<"(cross) ", "Repository creation failed: ", "fetch failed">>
    /\ page.mySecret = <<" ">>

====
